---- MODULE Spec2Model ----
(***************************************************************************)
(* Rendezvous and collective bootstrap of dist-gpu-windows.                *)
(*                                                                         *)
(* Every script of the repository is a single-threaded process that joins  *)
(* a process group (init_process_group), validates it with collective      *)
(* calls and tears it down.  A script is modelled by its control flow: a   *)
(* table from program labels to the step taken there and the labels the    *)
(* step continues at when it returns, raises or is interrupted.  The       *)
(* generic actions below execute one step of one process.  The rendezvous  *)
(* store and the collectives belong to torch.distributed, whose code is    *)
(* not part of the repository; they are modelled from the specification    *)
(* (sections 4.3, 4.5 and 5).                                              *)
(***************************************************************************)
EXTENDS Integers, Sequences, FiniteSets, TLC

(* Bounds of the model. *)
MaxProcs == 2
MaxWorld == 2

(* worker.py:78  max_retries = 30 *)
max_retries == 30

Procs == 1..MaxProcs

VARIABLES
    script,      \* script[p]: the script process p runs
    world,       \* world_size every process of the scenario passes
    rank,        \* rank[p]: the rank process p passes
    mpi,         \* dist.is_mpi_available() of the build
    pc,          \* pc[p]: program label of p, "exited" once terminated
    blocked,     \* blocked[p]: p is inside the blocking call at pc[p]
    exitCode,    \* exitCode[p]: exit status, -1 while alive
    sess,        \* sess[p]: "none", "joined" or "destroyed"
    registered,  \* rendezvous store: rank -> process holding it, 0 if free
    arrived,     \* arrived[c]: processes that have entered collective c
    failed,      \* failed[c]: processes whose call of collective c raised
    attempt,     \* attempt[p]: loop variable of the probe loop
    probes,      \* probes[p]: connection attempts of the probe loop so far
    sleeps,      \* sleeps[p]: sleeps of the probe loop so far
    reached,     \* reached[p]: the last probe found the port reachable
    probeResult, \* probeResult[p]: "pending", "reachable" or "exhausted"
    attempts,    \* attempts[p]: strategies passed to init_process_group
    via,         \* via[p]: strategy whose init_process_group returned
    teardowns,   \* teardowns[p]: calls of destroy_process_group
    misuse,      \* misuse[p]: operations the library rejected as usage errors
    done,        \* done[p]: collectives p has returned from
    group,       \* group[p]: the members of the session p joined
    marker,      \* the rendezvous marker file of train_standalone.py exists
    marker_owner,\* the process whose init_process_group created it, or 0
    forced,      \* rank on which a mismatched broadcast buffer is forced, -1 if none
    report,      \* report[p]: "none", "pass" or "fail", the verdict p printed last
    diagnosis,   \* diagnosis[p]: what p has printed about failures: "cause",
                 \* "next" (a next step), and the strategies whose error it printed
    contrib,     \* contrib[c][p]: the tensor p passed to collective c
    gathered,    \* gathered[p]: p's output list of all_gather
    broadcast_tensor, \* broadcast_tensor[p]: p's buffer of broadcast
    reduce_tensor,    \* reduce_tensor[p]: p's buffer of all_reduce
    input_addr,  \* the coordinator address the operator types or passes
    master_addr, \* master_addr[p]: the coordinator address p goes on with
    environ,     \* environ[p]: os.environ of p, the four rendezvous variables
    local_ip,    \* local_ip[p]: what the address resolver gave p, "" before
    interrupted  \* interrupted[p]: p has received a KeyboardInterrupt

cfgVars == <<script, world, rank, mpi, forced, input_addr>>
ctlVars == <<pc, blocked, exitCode, report, diagnosis>>
libVars == <<sess, registered, arrived, failed, group, marker, marker_owner>>
probeVars == <<attempt, probes, sleeps, reached, probeResult>>
histVars == <<attempts, via, teardowns, misuse, done>>
dataVars == <<contrib, gathered, broadcast_tensor, reduce_tensor>>
envVars == <<master_addr, local_ip, interrupted, environ>>
vars == <<cfgVars, ctlVars, libVars, probeVars, histVars, dataVars, envVars>>

Collectives == {"barrier", "broadcast", "all_gather", "all_reduce"}

(* One step of a script: the operation, the strategy of an init step, the  *)
(* status of an exit step, and the labels control continues at when the    *)
(* operation returns (ok), raises or takes its other branch (err), or is   *)
(* interrupted by KeyboardInterrupt (intr).  An exit step ends the process *)
(* with status 0 (main returns), 1 (sys.exit(1) or an uncaught exception)  *)
(* or 130 (an uncaught KeyboardInterrupt).                                 *)
S(op, strat, code, ok, err, intr) ==
    [op |-> op, strat |-> strat, code |-> code, ok |-> ok, err |-> err, intr |-> intr]

Exit(code) == S("exit", "", code, "exited", "exited", "exited")

(***************************************************************************)
(* worker.py.  initialize_distributed_worker_ip_only: the probe loop, then *)
(* Method 1 (tcp:// init) and, in its except clause, Method 2 (init from   *)
(* the environment); it returns True to main's test_connection call and    *)
(* False to main's sys.exit(1).                                            *)
(***************************************************************************)
initialize_distributed_worker_ip_only_retry(l) ==
    CASE l = "environ"    -> S("setenv", "", 0, "probe", "probe", "killed")
      [] l = "probe"      -> S("probe", "", 0, "m1", "probe_wait", "killed")
      [] l = "probe_wait" -> S("sleep", "", 0, "probe", "init_failed", "killed")
      [] l = "m1"         -> S("init", "tcp", 0, "test", "m2", "killed")
      [] l = "m2"         -> S("init", "env", 0, "test", "m1", "killed")

initialize_distributed_worker_ip_only(l) ==
    CASE l = "environ"    -> S("setenv", "", 0, "probe", "probe", "killed")
      [] l = "probe"      -> S("probe", "", 0, "m1", "probe_wait", "killed")
      [] l = "probe_wait" -> S("sleep", "", 0, "probe", "init_failed", "killed")
      [] l = "m1"         -> S("init", "tcp", 0, "test", "m2", "killed")
      [] l = "m2"         -> S("init", "env", 0, "test", "init_failed", "killed")

(* worker.py test_connection: barrier, then all_gather, inside try/except  *)
(* Exception; it returns False to main's sys.exit(1).                      *)
test_connection_lenient(l) ==
    CASE l = "test"       -> S("check_init", "", 0, "barrier", "test_failed", "killed")
      [] l = "barrier"    -> S("barrier", "", 0, "all_gather", "all_gather", "killed")
      [] l = "all_gather" -> S("all_gather", "", 0, "ready", "ready", "killed")

test_connection(l) ==
    CASE l = "test"       -> S("check_init", "", 0, "barrier", "test_failed", "killed")
      [] l = "barrier"    -> S("barrier", "", 0, "all_gather", "test_failed", "killed")
      [] l = "all_gather" -> S("all_gather", "", 0, "ready", "test_failed", "killed")

(* worker.py main: the two sys.exit(1), the keep-alive loop inside try,    *)
(* and the finally clause.                                                 *)
worker_main(l) ==
    CASE l = "local_ip"    -> S("get_local_ip", "", 0, "read_addr", "crash", "killed")
      [] l = "read_addr"   -> S("input", "", 0, "environ", "read_addr", "killed")
      [] l = "init_failed" -> Exit(1)
      [] l = "test_failed" -> Exit(1)
      [] l = "ready"       -> S("keepalive", "", 0, "ready", "finally", "finally")
      [] l = "finally"     -> S("destroy_guarded", "", 0, "end", "end", "end")
      [] l = "end"         -> Exit(0)
      [] l = "killed"      -> Exit(130)
      [] OTHER             -> Exit(1)

worker_py(l) ==
    IF l \in {"environ", "probe", "probe_wait", "m1", "m2"}
    THEN initialize_distributed_worker_ip_only(l)
    ELSE IF l \in {"test", "barrier", "all_gather"}
         THEN test_connection(l)
         ELSE worker_main(l)

(***************************************************************************)
(* worker_fixed.py.  initialize_distributed_worker: Method 1 (tcp:// init),*)
(* Method 2 (MPI back end, only if dist.is_mpi_available()), Method 3      *)
(* (init from the environment), each in its own try/except Exception.      *)
(***************************************************************************)
initialize_distributed_worker_skip(l) ==
    CASE l = "environ"   -> S("setenv", "", 0, "m1", "m1", "killed")
      [] l = "m1"        -> S("init", "tcp", 0, "test", "m3", "killed")
      [] l = "mpi_check" -> S("mpi_check", "", 0, "m2", "m3", "killed")
      [] l = "m2"        -> S("init", "mpi", 0, "test", "m3", "killed")
      [] l = "m3"        -> S("init", "env", 0, "test", "init_failed", "killed")

initialize_distributed_worker_envFirst(l) ==
    CASE l = "environ"   -> S("setenv", "", 0, "m1", "m1", "killed")
      [] l = "m1"        -> S("init", "env", 0, "test", "mpi_check", "killed")
      [] l = "mpi_check" -> S("mpi_check", "", 0, "m2", "m3", "killed")
      [] l = "m2"        -> S("init", "mpi", 0, "test", "m3", "killed")
      [] l = "m3"        -> S("init", "tcp", 0, "test", "init_failed", "killed")

initialize_distributed_worker(l) ==
    CASE l = "environ"   -> S("setenv", "", 0, "m1", "m1", "killed")
      [] l = "m1"        -> S("init", "tcp", 0, "test", "mpi_check", "killed")
      [] l = "mpi_check" -> S("mpi_check", "", 0, "m2", "m3", "killed")
      [] l = "m2"        -> S("init", "mpi", 0, "test", "m3", "killed")
      [] l = "m3"        -> S("init", "env", 0, "test", "init_failed", "killed")

(* worker_fixed.py test_simple_operations, called inside main's try: a     *)
(* failure returns False to main, which falls through to finally.          *)
test_simple_operations(l) ==
    CASE l = "test"       -> S("check_init", "", 0, "barrier", "tests_failed", "finally")
      [] l = "barrier"    -> S("barrier", "", 0, "all_gather", "tests_failed", "finally")
      [] l = "all_gather" -> S("all_gather", "", 0, "ready", "tests_failed", "finally")

worker_fixed_main(l) ==
    CASE l = "local_ip"    -> S("get_local_ip", "", 0, "read_addr", "crash", "killed")
      [] l = "read_addr"   -> S("input", "", 0, "environ", "read_addr", "killed")
      [] l = "init_failed" -> Exit(1)
      [] l = "ready"       -> S("keepalive", "", 0, "ready", "finally", "finally")
      [] l \in {"finally", "tests_failed"}
                           -> S("destroy_guarded", "", 0, "end", "end", "end")
      [] l = "end"         -> Exit(0)
      [] l = "killed"      -> Exit(130)
      [] OTHER             -> Exit(1)

worker_fixed_py(l) ==
    IF l \in {"environ", "m1", "mpi_check", "m2", "m3"}
    THEN initialize_distributed_worker(l)
    ELSE IF l \in {"test", "barrier", "all_gather"}
         THEN test_simple_operations(l)
         ELSE worker_fixed_main(l)

(***************************************************************************)
(* train_multinode.py: main                                                *)
(***************************************************************************)
train_multinode_py_noReturn(l) ==
    CASE l = "local_ip"    -> S("get_local_ip", "", 0, "init", "crash", "killed")
      [] l = "init"        -> S("init", "tcp", 0, "all_gather", "all_gather", "killed")
      [] l = "all_gather"  -> S("all_gather", "", 0, "broadcast", "crash", "killed")
      [] l = "broadcast"   -> S("broadcast", "", 0, "barrier", "crash", "killed")
      [] l = "barrier"     -> S("barrier", "", 0, "all_reduce", "crash", "killed")
      [] l = "all_reduce"  -> S("all_reduce", "", 0, "destroy", "crash", "killed")
      [] l = "destroy"     -> S("destroy", "", 0, "end", "crash", "killed")
      [] l = "end"         -> Exit(0)
      [] l = "killed"      -> Exit(130)
      [] OTHER             -> Exit(1)

train_multinode_py(l) ==
    CASE l = "local_ip"    -> S("get_local_ip", "", 0, "init", "crash", "killed")
      [] l = "init"        -> S("init", "tcp", 0, "all_gather", "init_failed", "killed")
      [] l = "init_failed" -> Exit(0)
      [] l = "all_gather"  -> S("all_gather", "", 0, "broadcast", "crash", "killed")
      [] l = "broadcast"   -> S("broadcast", "", 0, "barrier", "crash", "killed")
      [] l = "barrier"     -> S("barrier", "", 0, "all_reduce", "crash", "killed")
      [] l = "all_reduce"  -> S("all_reduce", "", 0, "destroy", "crash", "killed")
      [] l = "destroy"     -> S("destroy", "", 0, "end", "crash", "killed")
      [] l = "end"         -> Exit(0)
      [] l = "killed"      -> Exit(130)
      [] l = "crash"       -> Exit(1)
      [] OTHER             -> Exit(1)

(***************************************************************************)
(* train_torchrun_fixed.py: main                                           *)
(***************************************************************************)
train_torchrun_fixed_py(l) ==
    CASE l = "init"        -> S("init", "env", 0, "all_gather", "init_failed", "killed")
      [] l = "init_failed" -> Exit(0)
      [] l = "all_gather"  -> S("all_gather", "", 0, "broadcast", "crash", "killed")
      [] l = "broadcast"   -> S("broadcast", "", 0, "barrier", "crash", "killed")
      [] l = "barrier"     -> S("barrier", "", 0, "all_reduce", "crash", "killed")
      [] l = "all_reduce"  -> S("all_reduce", "", 0, "destroy", "crash", "killed")
      [] l = "destroy"     -> S("destroy", "", 0, "end", "crash", "killed")
      [] l = "end"         -> Exit(0)
      [] l = "killed"      -> Exit(130)
      [] l = "crash"       -> Exit(1)
      [] OTHER             -> Exit(1)

(***************************************************************************)
(* The coordinator of worker.py and worker_fixed.py (rank 0 of 2).  Its    *)
(* script is not among the repository's files: it hosts the rendezvous     *)
(* store, joins as rank 0 and mirrors the worker's validation sequence.    *)
(***************************************************************************)
coordinator_py(l) ==
    CASE l = "init"        -> S("init", "tcp", 0, "barrier", "init_failed", "killed")
      [] l = "init_failed" -> Exit(1)
      [] l = "barrier"     -> S("barrier", "", 0, "all_gather", "finally", "finally")
      [] l = "all_gather"  -> S("all_gather", "", 0, "ready", "finally", "finally")
      [] l = "ready"       -> S("keepalive", "", 0, "ready", "finally", "finally")
      [] l = "finally"     -> S("destroy_guarded", "", 0, "end", "end", "end")
      [] l = "end"         -> Exit(0)
      [] l = "killed"      -> Exit(130)
      [] l = "crash"       -> Exit(1)
      [] OTHER             -> Exit(1)

(***************************************************************************)
(* Test/train_torchrun.py: main                                            *)
(***************************************************************************)
train_torchrun_py(l) ==
    CASE l = "init"        -> S("init", "env", 0, "all_gather", "crash", "killed")
      [] l = "all_gather"  -> S("all_gather", "", 0, "barrier", "crash", "killed")
      [] l = "barrier"     -> S("barrier", "", 0, "destroy", "crash", "killed")
      [] l = "destroy"     -> S("destroy", "", 0, "end", "crash", "killed")
      [] l = "end"         -> Exit(0)
      [] l = "killed"      -> Exit(130)
      [] l = "crash"       -> Exit(1)
      [] OTHER             -> Exit(1)

(***************************************************************************)
(* train_standalone.py: main                                               *)
(***************************************************************************)
train_standalone_py_noDestroy(l) ==
    CASE l = "exists_pre"  -> S("exists", "", 0, "remove_pre", "init", "killed")
      [] l = "remove_pre"  -> S("remove", "", 0, "init", "crash", "killed")
      [] l = "init"        -> S("init", "file", 0, "all_gather", "crash", "killed")
      [] l = "all_gather"  -> S("all_gather", "", 0, "barrier", "crash", "killed")
      [] l = "barrier"     -> S("barrier", "", 0, "exists_post", "crash", "killed")
      [] l = "exists_post" -> S("exists", "", 0, "remove_post", "end", "killed")
      [] l = "remove_post" -> S("remove", "", 0, "end", "crash", "killed")
      [] l = "end"         -> Exit(0)
      [] l = "killed"      -> Exit(130)
      [] l = "crash"       -> Exit(1)
      [] OTHER             -> Exit(1)

train_standalone_py(l) ==
    CASE l = "exists_pre"  -> S("exists", "", 0, "remove_pre", "init", "killed")
      [] l = "remove_pre"  -> S("remove", "", 0, "init", "crash", "killed")
      [] l = "init"        -> S("init", "file", 0, "all_gather", "crash", "killed")
      [] l = "all_gather"  -> S("all_gather", "", 0, "barrier", "crash", "killed")
      [] l = "barrier"     -> S("barrier", "", 0, "destroy", "crash", "killed")
      [] l = "destroy"     -> S("destroy", "", 0, "exists_post", "crash", "killed")
      [] l = "exists_post" -> S("exists", "", 0, "remove_post", "end", "killed")
      [] l = "remove_post" -> S("remove", "", 0, "end", "crash", "killed")
      [] l = "end"         -> Exit(0)
      [] l = "killed"      -> Exit(130)
      [] l = "crash"       -> Exit(1)
      [] OTHER             -> Exit(1)

(***************************************************************************)
(* test_connection.py.  main calls test_network_connection (one attempt)   *)
(* and returns if it fails; test_simple_distributed_init joins over tcp:// *)
(* and destroys the session in its finally clause.                         *)
(***************************************************************************)
test_simple_distributed_init_noFinally(l) ==
    CASE l = "init"         -> S("init", "tcp", 0, "tensor", "end", "killed")
      [] l = "tensor"       -> S("tensor", "", 0, "finally", "end", "killed")
      [] l \in {"finally", "finally_fail"}
                            -> S("destroy_guarded", "", 0, "end", "end", "end")
      [] l = "finally_intr" -> S("destroy_guarded", "", 0, "killed", "killed", "killed")

test_simple_distributed_init(l) ==
    CASE l = "init"         -> S("init", "tcp", 0, "tensor", "finally_fail", "finally_intr")
      [] l = "tensor"       -> S("tensor", "", 0, "finally", "finally_fail", "finally_intr")
      [] l \in {"finally", "finally_fail"}
                            -> S("destroy_guarded", "", 0, "end", "end", "end")
      [] l = "finally_intr" -> S("destroy_guarded", "", 0, "killed", "killed", "killed")

test_connection_py(l) ==
    CASE l = "read_addr"    -> S("input", "", 0, "net_test", "read_addr", "killed")
      [] l = "net_test"     -> S("probe_once", "", 0, "init", "end", "killed")
      [] l \in {"init", "tensor", "finally", "finally_fail", "finally_intr"}
                            -> test_simple_distributed_init(l)
      [] l = "end"          -> Exit(0)
      [] l = "killed"       -> Exit(130)
      [] OTHER              -> Exit(1)

(***************************************************************************)
(* network_scan.py: main calls get_local_ip_info and returns at once if it *)
(* gave no address; the scan that follows takes no part in a bootstrap.    *)
(***************************************************************************)
network_scan_py(l) ==
    CASE l = "local_ip"     -> S("get_local_ip", "", 0, "end", "end", "killed")
      [] l = "end"          -> Exit(0)
      [] l = "killed"       -> Exit(130)
      [] OTHER              -> Exit(1)

Flow(s, l) ==
    CASE s = "worker"               -> worker_py(l)
      [] s = "worker_fixed"         -> worker_fixed_py(l)
      [] s = "test_connection"      -> test_connection_py(l)
      [] s = "train_multinode"      -> train_multinode_py(l)
      [] s = "train_torchrun_fixed" -> train_torchrun_fixed_py(l)
      [] s = "train_torchrun"       -> train_torchrun_py(l)
      [] s = "train_standalone"     -> train_standalone_py(l)
      [] s = "network_scan"         -> network_scan_py(l)
      [] OTHER                      -> coordinator_py(l)

Entry(s) ==
    CASE s \in {"worker", "worker_fixed", "train_multinode", "network_scan"}
                                -> "local_ip"
      [] s = "test_connection"  -> "read_addr"
      [] s = "train_standalone" -> "exists_pre"
      [] OTHER                  -> "init"

(* The scripts a scenario can run.  worker.py, worker_fixed.py and         *)
(* test_connection.py are rank 1 of a group of 2 whose rank 0 is the       *)
(* coordinator; the train_* scripts form groups of their own kind.         *)
Paired == {"worker", "worker_fixed", "test_connection"}
Launched == {"train_multinode", "train_torchrun_fixed", "train_torchrun"}
Scenarios == Paired \cup Launched \cup {"train_standalone", "network_scan"}

(* world_size and rank as each script passes them to init_process_group.   *)
(* train_multinode.py and train_torchrun_fixed.py take them as given       *)
(* (--rank and --world-size, RANK and WORLD_SIZE): any world_size from 0   *)
(* and any rank up to world_size, one past the last rank of the group.     *)
Unchecked == {"train_multinode", "train_torchrun_fixed"}

WorldArgs(s) ==
    CASE s \in Paired           -> {2}
      [] s \in {"train_standalone", "network_scan"} -> {1}
      [] s \in Unchecked        -> 0..MaxWorld
      [] OTHER                  -> 1..MaxWorld

RankArgs(s, p, w) ==
    CASE s \in Paired           -> IF p = 1 THEN {0} ELSE {1}
      [] s \in {"train_standalone", "network_scan"} -> {0}
      [] s \in Unchecked        -> 0..w
      [] OTHER                  -> 0..(w - 1)

(* The coordinator addresses an operator may type at the prompt of         *)
(* worker.py, worker_fixed.py and test_connection.py, and the ones passed  *)
(* as --master-addr to train_multinode.py.                                 *)
AddrInputs == {"192.168.1.100", "127.0.0.1", "", "macbook.local", "192.168.1.+5"}
MasterAddrArgs == {"192.168.1.100", "macbook.local"}

AddrArgs(s) ==
    CASE s \in Paired           -> AddrInputs
      [] s = "train_multinode"  -> MasterAddrArgs
      [] OTHER                  -> {""}

ScriptOf(s, p) == IF s \in Paired /\ p = 1 THEN "coordinator" ELSE s

(* os.environ restricted to MASTER_ADDR, MASTER_PORT, WORLD_SIZE and RANK;  *)
(* "" stands for a variable that is not set.  worker.py and worker_fixed.py*)
(* may be started in a shell that still holds the variables of an earlier  *)
(* launch.                                                                 *)
Environ(addr, port, w, r) ==
    [MASTER_ADDR |-> addr, MASTER_PORT |-> port, WORLD_SIZE |-> w, RANK |-> r]

EnvBefore(s) ==
    IF s \in {"worker", "worker_fixed"}
    THEN {Environ("", "", "", ""), Environ("macbook.local", "29500", "4", "0")}
    ELSE {Environ("", "", "", "")}

(* The rank a mismatched broadcast buffer is forced on: none, or the last   *)
(* rank of a group of train_multinode.py that was given the first of the   *)
(* addresses.                                                              *)
ForcedArgs(s, w, a) ==
    IF s = "train_multinode" /\ a = "192.168.1.100" THEN {-1, w - 1} ELSE {-1}

Init ==
    \E s \in Scenarios :
      /\ script = [p \in Procs |-> ScriptOf(s, p)]
      /\ world \in WorldArgs(s)
      /\ rank \in {f \in [Procs -> 0..MaxWorld] :
                      \A p \in Procs : f[p] \in RankArgs(s, p, world)}
      /\ mpi \in BOOLEAN
      /\ marker \in (IF s = "train_standalone" THEN BOOLEAN ELSE {FALSE})
      /\ marker_owner = 0
      /\ pc = [p \in Procs |-> Entry(ScriptOf(s, p))]
      /\ blocked = [p \in Procs |-> FALSE]
      /\ exitCode = [p \in Procs |-> -1]
      /\ sess = [p \in Procs |-> "none"]
      /\ registered = [r \in 0..(MaxWorld - 1) |-> 0]
      /\ arrived = [c \in Collectives |-> {}]
      /\ failed = [c \in Collectives |-> {}]
      /\ group = [p \in Procs |-> {}]
      /\ attempt = [p \in Procs |-> 0]
      /\ probes = [p \in Procs |-> 0]
      /\ sleeps = [p \in Procs |-> 0]
      /\ reached = [p \in Procs |-> FALSE]
      /\ probeResult = [p \in Procs |-> "pending"]
      /\ attempts = [p \in Procs |-> <<>>]
      /\ via = [p \in Procs |-> "none"]
      /\ teardowns = [p \in Procs |-> 0]
      /\ misuse = [p \in Procs |-> {}]
      /\ done = [p \in Procs |-> {}]
      /\ report = [p \in Procs |-> "none"]
      /\ diagnosis = [p \in Procs |-> {}]
      /\ contrib = [c \in Collectives |-> [p \in Procs |-> <<>>]]
      /\ gathered = [p \in Procs |-> <<>>]
      /\ broadcast_tensor = [p \in Procs |-> <<>>]
      /\ reduce_tensor = [p \in Procs |-> <<>>]
      /\ input_addr \in AddrArgs(s)
      /\ forced \in ForcedArgs(s, world, input_addr)
      /\ master_addr = [p \in Procs |->
                           IF s = "train_multinode" THEN input_addr ELSE ""]
      /\ local_ip = [p \in Procs |-> ""]
      /\ interrupted = [p \in Procs |-> FALSE]
      /\ \E e \in EnvBefore(s) :
           environ = [p \in Procs |->
                         IF ScriptOf(s, p) = s THEN e ELSE Environ("", "", "", "")]

(***************************************************************************)
(* The step process p is at, and whether it is at a step of operation o.   *)
(***************************************************************************)
Step(p) == Flow(script[p], pc[p])
At(p, o) == pc[p] # "exited" /\ Step(p).op = o

(* The verdict a script prints on its way to label l: "pass" where it      *)
(* announces that its tests passed, "fail" where it announces a failure.   *)
Says(s, l) ==
    CASE s \in {"train_multinode", "train_torchrun_fixed"} ->
             (CASE l = "destroy" -> "pass" [] l = "init_failed" -> "fail" [] OTHER -> "")
      [] s = "worker" ->
             (CASE l = "ready" -> "pass"
                [] l \in {"init_failed", "test_failed"} -> "fail"
                [] OTHER -> "")
      [] s = "worker_fixed" ->
             (CASE l = "ready" -> "pass" [] l = "init_failed" -> "fail" [] OTHER -> "")
      [] OTHER -> ""

(***************************************************************************)
(* The prompt for the coordinator address.  An address is text; split and  *)
(* int give what mac_ip.split('.') and int(part) give on it.  worker.py    *)
(* asks again unless the text has four parts that int() reads as 0..255    *)
(* and is neither "127.0.0.1" nor "localhost"; worker_fixed.py and         *)
(* test_connection.py ask again only on empty text and on "127.0.0.1".     *)
(* The resolved local address was printed before the prompt and is read    *)
(* nowhere after it: it is dropped once the prompt is left.                *)
(***************************************************************************)
split(a) ==
    CASE a = "192.168.1.100" -> <<"192", "168", "1", "100">>
      [] a = "192.168.1.7"   -> <<"192", "168", "1", "7">>
      [] a = "127.0.0.1"     -> <<"127", "0", "0", "1">>
      [] a = "macbook.local" -> <<"macbook", "local">>
      [] a = "192.168.1.+5"  -> <<"192", "168", "1", "+5">>
      [] OTHER               -> <<a>>

(* The parts int() reads as a number: decimal digits, also with a sign. *)
Decimal == {"0", "1", "7", "100", "127", "168", "192"}
Digits == Decimal \cup {"+5"}

int(part) ==
    CASE part = "0"   -> 0
      [] part = "1"   -> 1
      [] part = "7"   -> 7
      [] part = "100" -> 100
      [] part = "127" -> 127
      [] part = "168" -> 168
      [] part = "192" -> 192
      [] part = "+5"  -> 5

IsIPv4Literal(a) ==
    /\ Len(split(a)) = 4
    /\ \A i \in 1..4 : split(a)[i] \in Decimal /\ int(split(a)[i]) \in 0..255

(* Text that is neither an IPv4 literal nor a host name: four dotted parts  *)
(* of which one is not a decimal octet.  Resolving it raises socket.gaierror*)
(* before any connection is attempted.                                     *)
Malformed(a) == Len(split(a)) = 4 /\ ~IsIPv4Literal(a)

Accepts(s, a) ==
    IF s = "worker"
    THEN /\ a # ""
         /\ a \notin {"127.0.0.1", "localhost"}
         /\ Len(split(a)) = 4
         /\ \A i \in 1..4 : split(a)[i] \in Digits /\ int(split(a)[i]) \in 0..255
    ELSE a # "" /\ a # "127.0.0.1"

(* What a script prints about a failure when control passes from one label *)
(* to another: the exception of a failed init_process_group (in its except *)
(* clause, or as the traceback of an uncaught exception) with the strategy *)
(* that raised it, the reason a probe loop or a test gave up, and, where   *)
(* main lists them, the steps to try next; test_connection.py also prints  *)
(* the exception a probe raised on a malformed address.                    *)
Emits(p, to) ==
    LET s == script[p]
        st == Step(p)
    IN
    (IF st.op = "init" /\ to = st.err /\ to # st.ok
     THEN {"cause", st.strat} ELSE {})
    \cup (IF st.op \in Collectives \cup {"sleep", "check_init", "tensor"}
              /\ to = st.err /\ to # st.ok /\ to # st.intr
          THEN {"cause"} ELSE {})
    \cup (IF st.op = "probe_once" /\ to = st.err /\ Malformed(master_addr[p])
          THEN {"addr"} ELSE {})
    \cup (IF to = "init_failed" /\ s \in {"worker", "worker_fixed", "train_multinode"}
          THEN {"next"} ELSE {})

(* Control of p continues at label l.  A label that is an exit step (main  *)
(* returns, sys.exit(1), an uncaught exception) ends the process there.    *)
Goto(p, l) ==
    LET st == Flow(script[p], l) IN
    /\ report' = [report EXCEPT ![p] =
                     IF Says(script[p], l) = "" THEN @ ELSE Says(script[p], l)]
    /\ diagnosis' = [diagnosis EXCEPT ![p] = @ \cup Emits(p, l)]
    /\ IF st.op = "exit"
       THEN /\ pc' = [pc EXCEPT ![p] = "exited"]
            /\ exitCode' = [exitCode EXCEPT ![p] = st.code]
       ELSE /\ pc' = [pc EXCEPT ![p] = l]
            /\ UNCHANGED exitCode

(***************************************************************************)
(* The rendezvous store (specification 4.3).  A rank is registered by the  *)
(* process whose init_process_group holds it; the group is complete once   *)
(* every rank of 0..world_size-1 is registered.  Rank 0 hosts the store,   *)
(* so the coordinator's port accepts connections while rank 0 is           *)
(* registered by a live process.                                           *)
(***************************************************************************)
Ranks == 0..(world - 1)
Complete_any == \E r \in Ranks : registered[r] # 0
Complete == \A r \in Ranks : registered[r] # 0
ValidConfig(p) == world >= 1 /\ rank[p] \in Ranks
Holds(p) == ValidConfig(p) /\ registered[rank[p]] = p
Registry == {registered[r] : r \in Ranks}
Listening == registered[0] # 0 /\ pc[registered[0]] # "exited"

(* connect_ex((master_ip, 12355)) of p returns 0: the address resolves and *)
(* the coordinator listens.  On a malformed address it raises instead.     *)
Connects(p) == Listening /\ ~Malformed(master_addr[p])
Withdraw(p) ==
    IF Holds(p) /\ ~Complete THEN [registered EXCEPT ![rank[p]] = 0] ELSE registered

(***************************************************************************)
(* Connectivity prober: worker.py's loop of max_retries connection         *)
(* attempts, and test_connection.py's single attempt.  connect_ex returns  *)
(* 0 when the port accepts; a non-zero result and an exception swallowed   *)
(* by "except Exception: pass" both fall through to the sleep.  The loop   *)
(* variable and the loop's counts are local to the loop: they are dropped  *)
(* when the loop is left by break, and nothing reads them afterwards.      *)
(***************************************************************************)
Probe_noBreak(p) ==
    /\ At(p, "probe")
    /\ reached' = [reached EXCEPT ![p] = Connects(p)]
    /\ probes' = [probes EXCEPT ![p] = @ + 1]
    /\ Goto(p, Step(p).err)
    /\ UNCHANGED <<probeResult, sleeps, attempt>>
    /\ UNCHANGED <<cfgVars, envVars, dataVars, blocked, libVars, histVars>>

Probe(p) ==
    /\ At(p, "probe")
    /\ reached' = [reached EXCEPT ![p] = Connects(p)]
    /\ IF Connects(p)
       THEN /\ probeResult' = [probeResult EXCEPT ![p] = "reachable"]
            /\ probes' = [probes EXCEPT ![p] = 0]
            /\ sleeps' = [sleeps EXCEPT ![p] = 0]
            /\ attempt' = [attempt EXCEPT ![p] = 0]
            /\ Goto(p, Step(p).ok)
       ELSE /\ probes' = [probes EXCEPT ![p] = @ + 1]
            /\ Goto(p, Step(p).err)
            /\ UNCHANGED <<probeResult, sleeps, attempt>>
    /\ UNCHANGED <<cfgVars, envVars, dataVars, blocked, libVars, histVars>>

LoopBound_short == max_retries - 1
LoopBound == max_retries

Sleep_fatal(p) ==
    /\ At(p, "sleep")
    /\ sleeps' = [sleeps EXCEPT ![p] = @ + 1]
    /\ attempt' = [attempt EXCEPT ![p] = @ + 1]
    /\ probeResult' = [probeResult EXCEPT ![p] = "exhausted"]
    /\ Goto(p, Step(p).err)
    /\ UNCHANGED <<cfgVars, envVars, dataVars, blocked, libVars, probes, reached, histVars>>

Sleep(p) ==
    /\ At(p, "sleep")
    /\ sleeps' = [sleeps EXCEPT ![p] = @ + 1]
    /\ attempt' = [attempt EXCEPT ![p] = @ + 1]
    /\ IF attempt[p] + 1 < LoopBound
       THEN /\ Goto(p, Step(p).ok)
            /\ UNCHANGED probeResult
       ELSE /\ probeResult' = [probeResult EXCEPT ![p] = "exhausted"]
            /\ Goto(p, Step(p).err)
    /\ UNCHANGED <<cfgVars, envVars, dataVars, blocked, libVars, probes, reached, histVars>>

ProbeOnce_ignore(p) ==
    /\ At(p, "probe_once")
    /\ reached' = [reached EXCEPT ![p] = Connects(p)]
    /\ probeResult' = [probeResult EXCEPT ![p] =
                          IF Connects(p) THEN "reachable" ELSE "exhausted"]
    /\ Goto(p, Step(p).ok)
    /\ UNCHANGED <<cfgVars, envVars, dataVars, blocked, libVars, attempt, probes, sleeps, histVars>>

ProbeOnce(p) ==
    /\ At(p, "probe_once")
    /\ reached' = [reached EXCEPT ![p] = Connects(p)]
    /\ probeResult' = [probeResult EXCEPT ![p] =
                          IF Connects(p) THEN "reachable" ELSE "exhausted"]
    /\ Goto(p, IF Connects(p) THEN Step(p).ok ELSE Step(p).err)
    /\ UNCHANGED <<cfgVars, envVars, dataVars, blocked, libVars, attempt, probes, sleeps, histVars>>

(***************************************************************************)
(* init_process_group.  The call either raises at once (a transport or     *)
(* back-end error) or registers the caller's rank, if it is free, and      *)
(* blocks.  It returns once the group is complete and the caller holds its *)
(* rank, and raises (its timeout) while that is not so.  A configuration   *)
(* that is no rank of a group is rejected at once.  With the file://       *)
(* method the call creates the marker file; a call that raises may or may  *)
(* not have created it before.  A tcp:// or env:// rendezvous at an        *)
(* address that cannot be resolved raises.                                 *)
(***************************************************************************)
(***************************************************************************)
(* The head of initialize_distributed_worker(_ip_only): the four           *)
(* rendezvous variables are assigned in os.environ, whatever they held.    *)
(* str gives the decimal text of a number, as str(WORLD_SIZE), str(RANK).  *)
(***************************************************************************)
str(n) ==
    CASE n = 0 -> "0"
      [] n = 1 -> "1"
      [] n = 2 -> "2"
      [] n = 3 -> "3"
      [] OTHER -> "4"

SetDefault(old, new) ==
    [k \in DOMAIN old |-> IF old[k] = "" THEN new[k] ELSE old[k]]

SetEnv_setdefault(p) ==
    /\ At(p, "setenv")
    /\ environ' = [environ EXCEPT ![p] =
                      SetDefault(@, Environ(master_addr[p], "12355", str(2), str(1)))]
    /\ Goto(p, Step(p).ok)
    /\ UNCHANGED <<cfgVars, master_addr, local_ip, interrupted, dataVars, blocked,
                   libVars, probeVars, histVars>>

SetEnv(p) ==
    /\ At(p, "setenv")
    /\ environ' = [environ EXCEPT ![p] =
                      Environ(master_addr[p], "12355", str(2), str(1))]
    /\ Goto(p, Step(p).ok)
    /\ UNCHANGED <<cfgVars, master_addr, local_ip, interrupted, dataVars, blocked,
                   libVars, probeVars, histVars>>

(* init_process_group(backend='gloo') without arguments takes address,     *)
(* port, world size and rank from os.environ: the workers' fallback meets  *)
(* the group only if these are the ones of the group it is to join.        *)
ImplicitConfig(p) ==
    (Step(p).strat = "env" /\ script[p] \in {"worker", "worker_fixed"}) =>
        environ[p] = Environ(master_addr[p], "12355", str(world), str(rank[p]))

Resolvable(p) ==
    Step(p).strat \in {"tcp", "env"} => ~Malformed(master_addr[p])

InitCall(p) ==
    /\ At(p, "init")
    /\ ~blocked[p]
    /\ attempts' = [attempts EXCEPT ![p] = Append(@, Step(p).strat)]
    /\ \E fails \in (IF ValidConfig(p) /\ Resolvable(p) /\ ImplicitConfig(p)
                      THEN BOOLEAN ELSE {TRUE}) :
         IF fails
         THEN /\ Goto(p, Step(p).err)
              /\ marker' \in (IF Step(p).strat = "file"
                               THEN {marker, TRUE} ELSE {marker})
              /\ marker_owner' = IF ~marker /\ marker' THEN p ELSE marker_owner
              /\ UNCHANGED <<blocked, registered>>
         ELSE /\ blocked' = [blocked EXCEPT ![p] = TRUE]
              /\ registered' = IF registered[rank[p]] = 0
                               THEN [registered EXCEPT ![rank[p]] = p]
                               ELSE registered
              /\ marker' = (marker \/ Step(p).strat = "file")
              /\ marker_owner' = IF ~marker /\ marker' THEN p ELSE marker_owner
              /\ UNCHANGED <<pc, exitCode, report, diagnosis>>
    /\ UNCHANGED <<cfgVars, envVars, dataVars, sess, arrived, failed, group, probeVars,
                   via, teardowns, misuse, done>>

InitReturn(p) ==
    /\ At(p, "init")
    /\ blocked[p]
    /\ Holds(p)
    /\ Complete
    /\ sess' = [sess EXCEPT ![p] = "joined"]
    /\ group' = [group EXCEPT ![p] = Registry]
    /\ via' = [via EXCEPT ![p] = Step(p).strat]
    /\ blocked' = [blocked EXCEPT ![p] = FALSE]
    /\ Goto(p, Step(p).ok)
    /\ UNCHANGED <<cfgVars, envVars, dataVars, registered, arrived, failed, marker, marker_owner, probeVars,
                   attempts, teardowns, misuse, done>>

InitRaise(p) ==
    /\ At(p, "init")
    /\ blocked[p]
    /\ ~(Holds(p) /\ Complete)
    /\ registered' = Withdraw(p)
    /\ blocked' = [blocked EXCEPT ![p] = FALSE]
    /\ Goto(p, Step(p).err)
    /\ UNCHANGED <<cfgVars, envVars, dataVars, sess, arrived, failed, group, marker, marker_owner, probeVars, histVars>>

(***************************************************************************)
(* test_connection.py's tensor step after a successful join: creating the  *)
(* test tensor and moving it to the device returns or raises.              *)
(***************************************************************************)
TensorStep(p) ==
    /\ At(p, "tensor")
    /\ \E raises \in BOOLEAN :
         Goto(p, IF raises THEN Step(p).err ELSE Step(p).ok)
    /\ UNCHANGED <<cfgVars, envVars, dataVars, blocked, libVars, probeVars, histVars>>

(***************************************************************************)
(* dist.is_initialized() and dist.is_mpi_available() as branch conditions. *)
(***************************************************************************)
is_initialized(p) == sess[p] = "joined"

CheckInit(p) ==
    /\ At(p, "check_init")
    /\ Goto(p, IF is_initialized(p) THEN Step(p).ok ELSE Step(p).err)
    /\ UNCHANGED <<cfgVars, envVars, dataVars, blocked, libVars, probeVars, histVars>>

MpiCheck(p) ==
    /\ At(p, "mpi_check")
    /\ Goto(p, IF mpi THEN Step(p).ok ELSE Step(p).err)
    /\ UNCHANGED <<cfgVars, envVars, dataVars, blocked, libVars, probeVars, histVars>>

(***************************************************************************)
(* Collectives (specification 4.5 and 5).  A call by a joined process      *)
(* enters the collective and blocks; a call outside Joined is rejected as  *)
(* a usage error.  The call returns once every member of the caller's      *)
(* session has entered and the collective has failed for none of them; it  *)
(* raises (timeout, peer gone, transport failure) as long as the           *)
(* collective has been delivered to no member: a failure is the failure of *)
(* the whole group.                                                        *)
(***************************************************************************)
Released_any(p, c) == arrived[c] # {}
Released_ignoringFailures(p, c) == group[p] \subseteq arrived[c]
Released(p, c) ==
    /\ group[p] \subseteq arrived[c]
    /\ group[p] \cap failed[c] = {}

(* The tensor a script passes to collective c, r being dist.get_rank(): its *)
(* rank to all_gather (two values derived from it in the workers), the     *)
(* constant vector or zeros to broadcast, rank + 1 to all_reduce.          *)
Tensor(s, c, r) ==
    CASE c = "all_gather" ->
             (CASE s \in {"worker", "coordinator"} -> <<r * 100, r * 100 + 1>>
                [] s = "worker_fixed"              -> <<r * 10, r * 10 + 1>>
                [] OTHER                           -> <<r>>)
      [] c = "broadcast"  -> IF r = 0 THEN <<42, 100, 256>> ELSE <<0, 0, 0>>
      [] c = "all_reduce" -> <<r + 1>>
      [] OTHER            -> <<>>

(* torch.zeros of the shape of tensor x *)
zeros(x) == [i \in 1..Len(x) |-> 0]

(* dist.get_world_size() of a joined process *)
get_world_size(p) == Cardinality(group[p])

(* What the collectives deliver (specification 4.5): all_gather one        *)
(* contribution per rank at index rank, broadcast the source's buffer,     *)
(* all_reduce the sum of the members' values.                              *)
MemberOfRank(p, r) == CHOOSE q \in group[p] : rank[q] = r

AllGather_byMember(p) ==
    [i \in 1..get_world_size(p) |-> contrib["all_gather"][i]]

AllGather(p) ==
    [i \in 1..get_world_size(p) |-> contrib["all_gather"][MemberOfRank(p, i - 1)]]

Broadcast_own(p, src) == contrib["broadcast"][p]

Broadcast(p, src) == contrib["broadcast"][MemberOfRank(p, src)]

RECURSIVE SumOver(_, _)
SumOver(f, Q) ==
    IF Q = {} THEN 0
    ELSE LET q == CHOOSE x \in Q : TRUE IN f[q][1] + SumOver(f, Q \ {q})

AllReduce_local(p) == contrib["all_reduce"][p]

AllReduce(p) == <<SumOver(contrib["all_reduce"], group[p])>>

(* The buffer a member finds after broadcast: the source's, or a buffer    *)
(* that differs from it on the rank a mismatch is forced on.               *)
Mismatched(x) == [i \in 1..Len(x) |-> x[i] + 1]
Delivered(p) ==
    IF forced = rank[p] THEN Mismatched(Broadcast(p, 0)) ELSE Broadcast(p, 0)

CollCall(p) ==
    /\ pc[p] # "exited"
    /\ Step(p).op \in Collectives
    /\ ~blocked[p]
    /\ IF is_initialized(p)
       THEN LET c == Step(p).op
                x == Tensor(script[p], c, rank[p])
            IN  /\ arrived' = [arrived EXCEPT ![c] = @ \cup {p}]
                /\ contrib' = [contrib EXCEPT ![c][p] = x]
                /\ gathered' = IF c = "all_gather"
                                THEN [gathered EXCEPT ![p] =
                                         [i \in 1..get_world_size(p) |-> zeros(x)]]
                                ELSE gathered
                /\ broadcast_tensor' = IF c = "broadcast"
                                        THEN [broadcast_tensor EXCEPT ![p] = x]
                                        ELSE broadcast_tensor
                /\ reduce_tensor' = IF c = "all_reduce"
                                     THEN [reduce_tensor EXCEPT ![p] = x]
                                     ELSE reduce_tensor
                /\ blocked' = [blocked EXCEPT ![p] = TRUE]
                /\ UNCHANGED <<pc, exitCode, report, diagnosis, misuse>>
       ELSE /\ misuse' = [misuse EXCEPT ![p] = @ \cup {Step(p).op}]
            /\ Goto(p, Step(p).err)
            /\ UNCHANGED <<arrived, failed, blocked, dataVars>>
    /\ UNCHANGED <<cfgVars, envVars, sess, registered, failed, group, marker, marker_owner,
                   probeVars, attempts, via, teardowns, done>>

CollReturn(p) ==
    /\ pc[p] # "exited"
    /\ Step(p).op \in Collectives
    /\ blocked[p]
    /\ Released(p, Step(p).op)
    /\ done' = [done EXCEPT ![p] = @ \cup {Step(p).op}]
    /\ gathered' = IF Step(p).op = "all_gather"
                    THEN [gathered EXCEPT ![p] = AllGather(p)]
                    ELSE gathered
    /\ broadcast_tensor' = IF Step(p).op = "broadcast"
                            THEN [broadcast_tensor EXCEPT ![p] = Delivered(p)]
                            ELSE broadcast_tensor
    /\ reduce_tensor' = IF Step(p).op = "all_reduce"
                         THEN [reduce_tensor EXCEPT ![p] = AllReduce(p)]
                         ELSE reduce_tensor
    /\ blocked' = [blocked EXCEPT ![p] = FALSE]
    /\ Goto(p, Step(p).ok)
    /\ UNCHANGED <<cfgVars, envVars, contrib, libVars, probeVars, attempts, via, teardowns, misuse>>

Delivering(p, c) == \E q \in group[p] : c \in done[q]

CollRaise(p) ==
    /\ pc[p] # "exited"
    /\ Step(p).op \in Collectives
    /\ blocked[p]
    /\ ~Delivering(p, Step(p).op)
    /\ failed' = [failed EXCEPT ![Step(p).op] = @ \cup {p}]
    /\ blocked' = [blocked EXCEPT ![p] = FALSE]
    /\ Goto(p, Step(p).err)
    /\ UNCHANGED <<cfgVars, envVars, dataVars, sess, registered, arrived, group,
                   marker, marker_owner, probeVars, histVars>>

(***************************************************************************)
(* destroy_process_group: called bare, or behind "if dist.is_initialized()"*)
(* inside try/except.  The library rejects a call without a live session.  *)
(***************************************************************************)
Destroy(p) ==
    /\ At(p, "destroy")
    /\ teardowns' = [teardowns EXCEPT ![p] = @ + 1]
    /\ IF is_initialized(p)
       THEN /\ sess' = [sess EXCEPT ![p] = "destroyed"]
            /\ Goto(p, Step(p).ok)
            /\ UNCHANGED misuse
       ELSE /\ misuse' = [misuse EXCEPT ![p] = @ \cup {"destroy"}]
            /\ Goto(p, Step(p).err)
            /\ UNCHANGED sess
    /\ UNCHANGED <<cfgVars, envVars, dataVars, blocked, registered, arrived, failed, group, marker, marker_owner,
                   probeVars, attempts, via, done>>

DestroyGuarded_unguarded(p) ==
    /\ At(p, "destroy_guarded")
    /\ teardowns' = [teardowns EXCEPT ![p] = @ + 1]
    /\ IF is_initialized(p)
       THEN /\ sess' = [sess EXCEPT ![p] = "destroyed"]
            /\ UNCHANGED misuse
       ELSE /\ misuse' = [misuse EXCEPT ![p] = @ \cup {"destroy"}]
            /\ UNCHANGED sess
    /\ Goto(p, Step(p).ok)
    /\ UNCHANGED <<cfgVars, envVars, dataVars, blocked, registered, arrived, failed, group, marker, marker_owner,
                   probeVars, attempts, via, done>>

DestroyGuarded(p) ==
    /\ At(p, "destroy_guarded")
    /\ IF is_initialized(p)
       THEN /\ teardowns' = [teardowns EXCEPT ![p] = @ + 1]
            /\ sess' = [sess EXCEPT ![p] = "destroyed"]
       ELSE UNCHANGED <<teardowns, sess>>
    /\ Goto(p, Step(p).ok)
    /\ UNCHANGED <<cfgVars, envVars, dataVars, blocked, registered, arrived, failed, group, marker, marker_owner,
                   probeVars, attempts, via, misuse, done>>

(***************************************************************************)
(* train_standalone.py's marker file: os.path.exists and os.remove.  The   *)
(* file is the rendezvous store of the file:// method, so removing it      *)
(* discards the registrations it holds.                                    *)
(***************************************************************************)
Exists(p) ==
    /\ At(p, "exists")
    /\ Goto(p, IF marker THEN Step(p).ok ELSE Step(p).err)
    /\ UNCHANGED <<cfgVars, envVars, dataVars, blocked, libVars, probeVars, histVars>>

Remove(p) ==
    /\ At(p, "remove")
    /\ IF marker
       THEN /\ marker' = FALSE
            /\ marker_owner' = 0
            /\ registered' = [r \in 0..(MaxWorld - 1) |-> 0]
            /\ Goto(p, Step(p).ok)
       ELSE /\ Goto(p, Step(p).err)
            /\ UNCHANGED <<marker, marker_owner, registered>>
    /\ UNCHANGED <<cfgVars, envVars, dataVars, blocked, sess, arrived, failed, group, probeVars, histVars>>

(***************************************************************************)
(* Address resolver.  get_local_ip of worker.py and worker_fixed.py reads   *)
(* back the endpoint of a connectionless socket and returns "127.0.0.1" if *)
(* that raises; get_local_ip of train_multinode.py returns                 *)
(* gethostbyname(gethostname()) instead, which raises if the host name     *)
(* does not resolve; get_local_ip_info of network_scan.py returns None.    *)
(* udp: the socket lookup succeeds; dns: the host name resolves.           *)
(***************************************************************************)
get_local_ip(udp) == IF udp THEN "192.168.1.7" ELSE "127.0.0.1"

get_local_ip_train_multinode(udp, dns) ==
    IF udp THEN "192.168.1.7" ELSE IF dns THEN "192.168.1.7" ELSE "raise"

get_local_ip_info(udp) == IF udp THEN "192.168.1.7" ELSE "None"

Resolver(s, udp, dns) ==
    CASE s = "train_multinode" -> get_local_ip_train_multinode(udp, dns)
      [] s = "network_scan"    -> get_local_ip_info(udp)
      [] OTHER                 -> get_local_ip(udp)

GetLocalIp(p) ==
    /\ At(p, "get_local_ip")
    /\ \E udp, dns \in BOOLEAN :
         LET ip == Resolver(script[p], udp, dns) IN
         /\ local_ip' = [local_ip EXCEPT ![p] = ip]
         /\ Goto(p, IF ip \in {"raise", "None"} THEN Step(p).err ELSE Step(p).ok)
    /\ UNCHANGED <<cfgVars, master_addr, interrupted, environ, dataVars, blocked, libVars,
                   probeVars, histVars>>

(* The prompt: input(...).strip(), checked as the script checks it. *)
Input(p) ==
    /\ At(p, "input")
    /\ IF Accepts(script[p], input_addr)
       THEN /\ master_addr' = [master_addr EXCEPT ![p] = input_addr]
            /\ local_ip' = [local_ip EXCEPT ![p] = ""]
            /\ Goto(p, Step(p).ok)
       ELSE /\ Goto(p, Step(p).err)
            /\ UNCHANGED <<master_addr, local_ip>>
    /\ UNCHANGED <<cfgVars, interrupted, environ, dataVars, blocked, libVars,
                   probeVars, histVars>>

(***************************************************************************)
(* KeyboardInterrupt, delivered while the process sleeps or is blocked in  *)
(* a call; control continues at the handler the script has there.          *)
(***************************************************************************)
Interruptible(p) == blocked[p] \/ Step(p).op \in {"keepalive", "sleep", "input"}

Interrupt(p) ==
    /\ pc[p] # "exited"
    /\ Interruptible(p)
    /\ registered' = IF Step(p).op = "init" THEN Withdraw(p) ELSE registered
    /\ blocked' = [blocked EXCEPT ![p] = FALSE]
    /\ interrupted' = [interrupted EXCEPT ![p] = TRUE]
    /\ Goto(p, Step(p).intr)
    /\ UNCHANGED <<cfgVars, master_addr, local_ip, environ, dataVars, sess, arrived, failed, group,
                   marker, marker_owner, probeVars, histVars>>

Next ==
    \E p \in Procs :
        \/ Probe(p)
        \/ Sleep(p)
        \/ ProbeOnce(p)
        \/ InitCall(p)
        \/ InitReturn(p)
        \/ InitRaise(p)
        \/ CheckInit(p)
        \/ MpiCheck(p)
        \/ CollCall(p)
        \/ CollReturn(p)
        \/ CollRaise(p)
        \/ Destroy(p)
        \/ DestroyGuarded(p)
        \/ Exists(p)
        \/ Remove(p)
        \/ Interrupt(p)
        \/ GetLocalIp(p)
        \/ Input(p)
        \/ TensorStep(p)
        \/ SetEnv(p)

Spec == Init /\ [][Next]_vars

(***************************************************************************)
(*                              Properties                                 *)
(***************************************************************************)
Exited(p) == pc[p] = "exited"
InCollective(p) == ~Exited(p) /\ blocked[p] /\ Step(p).op \in Collectives
IsPrefix(a, b) == Len(a) <= Len(b) /\ \A i \in 1..Len(a) : a[i] = b[i]

(* The strategies a negotiator is to try, in priority order. *)
StrategyOrder(p) ==
    CASE script[p] = "worker"       -> <<"tcp", "env">>
      [] script[p] = "worker_fixed" -> IF mpi THEN <<"tcp", "mpi", "env">>
                                              ELSE <<"tcp", "env">>
      [] OTHER                      -> <<Flow(script[p], "init").strat>>

Negotiators == {p \in Procs : script[p] \in {"worker", "worker_fixed"}}

(* The negotiator returned False with every strategy failed. *)
Exhausted(p) ==
    /\ Exited(p)
    /\ exitCode[p] = 1
    /\ via[p] = "none"
    /\ probeResult[p] # "exhausted"

(* The strategies passed to init_process_group so far are a prefix of the   *)
(* priority order, the one that succeeded is the last one attempted, and   *)
(* an invocation that has failed has attempted all of them.                *)
C1_AttemptsInv ==
    \A p \in Negotiators :
        /\ IsPrefix(attempts[p], StrategyOrder(p))
        /\ via[p] # "none" =>
              /\ Len(attempts[p]) >= 1
              /\ attempts[p][Len(attempts[p])] = via[p]
        /\ Exhausted(p) => attempts[p] = StrategyOrder(p)

(* C1: in one invocation of initialize_distributed_worker(_ip_only) the    *)
(* strategies passed to init_process_group are a prefix of the priority    *)
(* order (each at most once, a failure advancing to the next), the         *)
(* strategy that succeeded is the last one attempted, an invocation that   *)
(* fails has attempted all of them, and once one has succeeded no further  *)
(* init_process_group is attempted.                                        *)
C1_NegotiatorOnce ==
    /\ []C1_AttemptsInv
    /\ [][\A p \in Negotiators :
             via[p] # "none" => /\ attempts'[p] = attempts[p]
                                /\ via'[p] = via[p]]_vars

C1_Witness ==
    \E p \in Negotiators :
        /\ via[p] = "env"
        /\ Len(attempts[p]) >= 2
        /\ sess[p] = "joined"

C3_ProbeExactly ==
    \A p \in Procs :
        script[p] = "worker" =>
            /\ probes[p] <= max_retries
            /\ sleeps[p] <= probes[p]
            /\ probes[p] <= sleeps[p] + 1
            /\ probeResult[p] = "exhausted" =>
                  /\ probes[p] = max_retries
                  /\ sleeps[p] = max_retries
                  /\ Exited(p)

C3_Witness ==
    \E p \in Procs :
        /\ script[p] = "worker"
        /\ probeResult[p] = "exhausted"
        /\ probes[p] = max_retries

(* C4: the prober reports success at the attempt that finds the port       *)
(* reachable and probes no more after it; it reports failure only with no  *)
(* attempt having found the port reachable.                                *)
C4_FirstReachable ==
    \A p \in Procs :
        script[p] = "worker" =>
            /\ reached[p] => probeResult[p] = "reachable"
            /\ probeResult[p] = "reachable" =>
                  (Exited(p) \/ Step(p).op \notin {"probe", "sleep"})
            /\ probeResult[p] = "exhausted" => ~reached[p]

C4_Witness ==
    \E p \in Procs :
        /\ script[p] = "worker"
        /\ reached[p]
        /\ probeResult[p] = "reachable"
        /\ pc[p] = "m1"

(* C5 as claimed: a process of worker.py, worker_fixed.py,                 *)
(* train_multinode.py or train_torchrun_fixed.py that terminates without   *)
(* having joined has made no collective call and has a non-zero exit       *)
(* status.                                                                 *)
C5_Original ==
    \A p \in Procs :
        (/\ script[p] \in {"worker", "worker_fixed", "train_multinode",
                           "train_torchrun_fixed"}
         /\ Exited(p)
         /\ sess[p] = "none")
            => /\ exitCode[p] # 0
               /\ done[p] = {}
               /\ misuse[p] = {}

(* C6: the members of a session are exactly world_size processes whose     *)
(* ranks are the ranks 0..world_size-1, each held once; two sessions of    *)
(* one group never hold the same rank.                                     *)
C6_RankPermutation ==
    \A p \in Procs :
        sess[p] # "none" =>
            /\ group[p] \subseteq Procs
            /\ p \in group[p]
            /\ Cardinality(group[p]) = world
            /\ {rank[q] : q \in group[p]} = 0..(world - 1)
            /\ \A q \in group[p] :
                  (q # p /\ sess[q] # "none") =>
                      (rank[q] # rank[p] /\ group[q] = group[p])

C6_Witness ==
    \E p, q \in Procs :
        /\ p # q
        /\ sess[p] = "joined"
        /\ sess[q] = "joined"
        /\ group[p] = {p, q}
        /\ world = 2

(* C7: a process is inside a collective call only while its session is     *)
(* joined, and no collective call was ever rejected for want of a joined   *)
(* session.                                                                *)
C7_CollectiveOnlyJoined ==
    \A p \in Procs :
        /\ InCollective(p) => sess[p] = "joined"
        /\ misuse[p] \cap Collectives = {}
        /\ done[p] # {} => sess[p] # "none"

C7_Witness ==
    \E p \in Procs :
        /\ InCollective(p)
        /\ sess[p] = "joined"
        /\ script[p] = "train_multinode"

(* C8: a process calls destroy_process_group at most once, and only on a   *)
(* joined session.                                                         *)
C8_TeardownOnce ==
    \A p \in Procs :
        /\ teardowns[p] <= 1
        /\ "destroy" \notin misuse[p]
        /\ teardowns[p] = 1 <=> sess[p] = "destroyed"

C8_Witness ==
    \E p \in Procs :
        /\ teardowns[p] = 1
        /\ sess[p] = "destroyed"
        /\ script[p] = "worker"

(* C9 as claimed: no process of worker.py or worker_fixed.py terminates    *)
(* while its session is still joined.                                      *)
C9_Original ==
    \A p \in Procs :
        (script[p] \in {"worker", "worker_fixed"} /\ Exited(p))
            => sess[p] # "joined"

(* C10: a process has returned from barrier only if every one of the       *)
(* world_size members of its session has entered barrier; until then each  *)
(* caller that entered is still blocked in it or has left it by an         *)
(* exception.                                                              *)
C10_BarrierAll ==
    \A p \in Procs :
        "barrier" \in done[p] =>
            /\ group[p] \subseteq arrived["barrier"]
            /\ Cardinality(arrived["barrier"] \cap group[p]) = world

C10_Witness ==
    \E p \in Procs :
        /\ "barrier" \in done[p]
        /\ world = 2
        /\ Cardinality(group[p]) = 2

(* The scripts that gather their ranks: train_multinode.py:97-103,         *)
(* train_torchrun_fixed.py:51-57, Test/train_torchrun.py:27-31 and         *)
(* train_standalone.py:42-46.                                              *)
RankGatherers ==
    {"train_multinode", "train_torchrun_fixed", "train_torchrun", "train_standalone"}

Validators == {"train_multinode", "train_torchrun_fixed"}

(* C11: a member that has returned from all_gather of the members' ranks   *)
(* holds the list [0, 1, ..., N-1], the contribution of rank r at index r, *)
(* whatever the order in which the members called and returned.            *)
C11_AllGatherRanks ==
    \A p \in Procs :
        (script[p] \in RankGatherers /\ "all_gather" \in done[p])
            => gathered[p] = [i \in 1..world |-> <<i - 1>>]

C11_Witness ==
    \E p \in Procs :
        /\ script[p] = "train_multinode"
        /\ "all_gather" \in done[p]
        /\ world = 2
        /\ rank[1] = 1
        /\ rank[2] = 0
        /\ gathered[p] = << <<0>>, <<1>> >>

(* C12: on a group no mismatch is forced on, a member that has returned    *)
(* from broadcast(buffer, src=0) holds the constant vector [42, 100, 256], *)
(* the members that have returned hold identical buffers, and the buffer   *)
(* of rank 0 is the one it passed.                                         *)
C12_Broadcast ==
    forced = -1 =>
        \A p \in Procs :
            (script[p] \in Validators /\ "broadcast" \in done[p])
                => /\ broadcast_tensor[p] = <<42, 100, 256>>
                   /\ \A q \in group[p] :
                         "broadcast" \in done[q]
                             => broadcast_tensor[q] = broadcast_tensor[p]
                   /\ rank[p] = 0 => broadcast_tensor[p] = contrib["broadcast"][p]

C12_Witness ==
    \E p \in Procs :
        /\ script[p] = "train_multinode"
        /\ forced = -1
        /\ rank[p] = 1
        /\ "broadcast" \in done[p]
        /\ contrib["broadcast"][p] = <<0, 0, 0>>
        /\ broadcast_tensor[p] = <<42, 100, 256>>

(* C13: a member that has returned from all_reduce(SUM) of rank + 1 over   *)
(* the N members holds N*(N+1)/2; for N = 1 that is the value it passed.   *)
C13_AllReduceSum ==
    \A p \in Procs :
        (script[p] \in Validators /\ "all_reduce" \in done[p])
            => /\ reduce_tensor[p] = <<(world * (world + 1)) \div 2>>
               /\ world = 1 => reduce_tensor[p] = contrib["all_reduce"][p]

C13_Witness ==
    \E p \in Procs :
        /\ script[p] = "train_multinode"
        /\ "all_reduce" \in done[p]
        /\ world = 2
        /\ contrib["all_reduce"][p] = <<1>>
        /\ reduce_tensor[p] = <<3>>

(* C14 as claimed: a run of the validator of train_multinode.py that       *)
(* observed a broadcast buffer other than the expected [42, 100, 256] does *)
(* not report success.                                                     *)
C14_Original ==
    \A p \in Procs :
        (script[p] = "train_multinode" /\ report[p] = "pass")
            => broadcast_tensor[p] = <<42, 100, 256>>

(* While worker.py probes, a refused connection is followed by the sleep   *)
(* and, with budget left, by another probe; a probe that connects to the   *)
(* listening controller proceeds to the handshake, whatever the number of  *)
(* attempts made before it.                                                *)
C15_KeepsProbing ==
    \A p \in Procs :
        (script[p] = "worker" /\ pc'[p] # pc[p]) =>
            /\ (pc[p] = "probe" /\ Connects(p)) => pc'[p] = "m1"
            /\ (pc[p] = "probe" /\ ~Connects(p)) => pc'[p] = "probe_wait"
            /\ (pc[p] = "probe_wait" /\ attempt[p] + 1 < max_retries)
                   => (pc'[p] = "probe" \/ exitCode'[p] = 130)

(* A worker that gave up without a handshake has spent its whole budget:   *)
(* max_retries probes in worker.py, every strategy in worker_fixed.py.     *)
C15_FatalOnlyExhausted ==
    \A p \in Procs :
        (Exited(p) /\ exitCode[p] = 1 /\ via[p] = "none") =>
            /\ (script[p] = "worker" /\ attempts[p] = <<>>)
                   => (probeResult[p] = "exhausted" /\ probes[p] = max_retries)
            /\ script[p] = "worker_fixed" => attempts[p] = StrategyOrder(p)

(* C15: a participant started before the controller listens keeps probing  *)
(* through refused connections, proceeds to the handshake at whichever     *)
(* attempt finds the controller listening, and gives up only with its      *)
(* whole retry budget spent.                                               *)
C15_SequencingTransient ==
    /\ []C15_FatalOnlyExhausted
    /\ [][C15_KeepsProbing]_vars

C15_Witness ==
    \E p \in Procs :
        /\ script[p] = "worker"
        /\ pc[p] = "probe"
        /\ probes[p] >= 2
        /\ sleeps[p] = probes[p]
        /\ probeResult[p] = "pending"
        /\ Listening

(* C16 as claimed: whatever the address resolver gives a process is a      *)
(* syntactically valid IPv4 literal; it neither raises nor gives a null    *)
(* address.                                                                *)
C16_Original ==
    \A p \in Procs : local_ip[p] # "" => IsIPv4Literal(local_ip[p])

(* The coordinator address of p has reached the prober or                  *)
(* init_process_group.                                                     *)
ReachedCore(p) ==
    attempts[p] # <<>> \/ probes[p] > 0 \/ probeResult[p] # "pending"

(* C17 as claimed: in worker.py, worker_fixed.py, test_connection.py and   *)
(* train_multinode.py the coordinator address that has reached the prober  *)
(* or init_process_group is an IPv4 literal.                               *)
C17_Original ==
    \A p \in Procs :
        (/\ script[p] \in {"worker", "worker_fixed", "test_connection",
                           "train_multinode"}
         /\ ReachedCore(p))
            => IsIPv4Literal(master_addr[p])

(* C18 as claimed: init_process_group is attempted only with a world_size  *)
(* of at least 1 and a rank in 0..world_size-1.                            *)
C18_Original ==
    \A p \in Procs :
        attempts[p] # <<>> => (world >= 1 /\ 0 <= rank[p] /\ rank[p] < world)

(* C19 as claimed: once the processes of train_standalone.py have          *)
(* terminated, by whatever path, the rendezvous marker file they created   *)
(* no longer exists.                                                       *)
C19_Original ==
    (\A p \in Procs : script[p] = "train_standalone" /\ Exited(p)) => ~marker

(* C20 as claimed: a process of worker.py, worker_fixed.py or              *)
(* train_multinode.py that has announced a successful bootstrap and        *)
(* validation has torn its session down or terminated only if it was       *)
(* interrupted.                                                            *)
C20_Original ==
    \A p \in Procs :
        (/\ script[p] \in {"worker", "worker_fixed", "train_multinode"}
         /\ report[p] = "pass"
         /\ (Exited(p) \/ sess[p] = "destroyed"))
            => interrupted[p]

(* The bootstrap of p failed: it terminated, uninterrupted, with every     *)
(* init_process_group it called having raised.                             *)
BootstrapFailed(p) ==
    /\ Exited(p)
    /\ ~interrupted[p]
    /\ attempts[p] # <<>>
    /\ via[p] = "none"
    /\ sess[p] = "none"

(* C21 as claimed: a process whose bootstrap failed has printed, before it *)
(* terminated, the cause, the error of every strategy it attempted and a   *)
(* next step to try.                                                       *)
C21_Original ==
    \A p \in Procs :
        (script[p] # "coordinator" /\ BootstrapFailed(p)) =>
            /\ "cause" \in diagnosis[p]
            /\ "next" \in diagnosis[p]
            /\ \A i \in 1..Len(attempts[p]) : attempts[p][i] \in diagnosis[p]

(* The place of a strategy in the priority order: direct handshake (tcp://  *)
(* init), implicit configuration (env:// init), store-mediated, file-      *)
(* mediated.  The MPI back end of worker_fixed.py is not one of the four.  *)
Ranked == {"tcp", "env", "store", "file"}
Priority(s) ==
    CASE s = "tcp"   -> 1
      [] s = "env"   -> 2
      [] s = "store" -> 3
      [] s = "file"  -> 4
      [] OTHER       -> 0

(* C22: a negotiator attempts a strategy only after every strategy of      *)
(* higher priority that it attempts at all has been attempted earlier in   *)
(* the same invocation and has failed: along the attempts the priority     *)
(* never goes back, and no attempt follows a strategy that succeeded.      *)
C22_PriorityOrder ==
    \A p \in Negotiators :
        \A i \in 1..Len(attempts[p]) :
            /\ \A j \in 1..(i - 1) :
                  /\ via[p] # attempts[p][j]
                  /\ (attempts[p][i] \in Ranked /\ attempts[p][j] \in Ranked)
                        => Priority(attempts[p][j]) < Priority(attempts[p][i])
            /\ attempts[p][i] = "env" =>
                  \E j \in 1..(i - 1) : attempts[p][j] = "tcp"

C22_Witness ==
    \E p \in Negotiators :
        /\ script[p] = "worker"
        /\ attempts[p] = <<"tcp", "env">>
        /\ via[p] = "env"

(* The rendezvous parameters of the i-th bootstrap attempt of p: strategy, *)
(* coordinator address, port, rank, world size and back end.               *)
RendezvousParams(p, i) ==
    <<attempts[p][i], master_addr[p], 12355, rank[p], world,
      IF attempts[p][i] = "mpi" THEN "mpi" ELSE "gloo">>

(* C27: within one invocation no two bootstrap attempts use the same       *)
(* rendezvous parameters.                                                  *)
C27_NoIdenticalRetry ==
    \A p \in Procs :
        \A i, j \in 1..Len(attempts[p]) :
            i # j => RendezvousParams(p, i) # RendezvousParams(p, j)

C27_Witness ==
    \E p \in Procs :
        /\ script[p] = "worker"
        /\ Len(attempts[p]) = 2
        /\ Exhausted(p)

(* The scripts that probe the coordinator's port before they bootstrap. *)
Probers == {p \in Procs : script[p] \in {"worker", "test_connection"}}

(* C28: in worker.py and test_connection.py init_process_group is called   *)
(* only after a probe of the coordinator's port succeeded; a process whose *)
(* probing gave up never calls it.                                         *)
C28_ProbeBeforeStrategy ==
    /\ [](\A p \in Probers :
            /\ attempts[p] # <<>> => probeResult[p] = "reachable"
            /\ probeResult[p] = "exhausted" =>
                  (attempts[p] = <<>> /\ sess[p] = "none"))
    /\ [][\A p \in Probers :
             attempts'[p] # attempts[p] => probeResult[p] = "reachable"]_vars

C28_Witness ==
    \E p \in Probers :
        /\ script[p] = "test_connection"
        /\ attempts[p] = <<"tcp">>
        /\ probeResult[p] = "reachable"
        /\ ~Listening

(* test_simple_distributed_init of p has returned (or was left by Ctrl+C). *)
InitTestReturned(p) ==
    /\ script[p] = "test_connection"
    /\ \/ Exited(p)
       \/ pc[p] \in {"end", "killed"}

(* C29: once test_simple_distributed_init has returned, with either result *)
(* and also when init_process_group or the tensor step raised, the process *)
(* holds no joined session.                                                *)
C29_NoSessionAfterTest ==
    \A p \in Procs : InitTestReturned(p) => sess[p] # "joined"

C29_Witness ==
    \E p \in Procs :
        /\ InitTestReturned(p)
        /\ ~interrupted[p]
        /\ via[p] = "tcp"
        /\ "cause" \in diagnosis[p]
        /\ teardowns[p] = 1

(* C23: a collective is all-or-nothing.  If it returned for one member of  *)
(* a session, every member of the session entered it and it raised for     *)
(* none of them; if it raised for one member, it returned for none.        *)
C23_AllOrNothing ==
    \A c \in Collectives : \A p \in Procs :
        /\ c \in done[p] =>
              \A q \in group[p] : q \in arrived[c] /\ q \notin failed[c]
        /\ (p \in failed[c] /\ sess[p] # "none") =>
              \A q \in group[p] : c \notin done[q]

C23_Witness ==
    \E c \in Collectives : \E p, q \in Procs :
        /\ p # q
        /\ q \in group[p]
        /\ {p, q} \subseteq arrived[c]
        /\ {p, q} \subseteq failed[c]

(* The labels of the validator (test_connection, test_simple_operations)   *)
(* and of the keep-alive loop in worker.py and worker_fixed.py.            *)
InValidator(p) == ~Exited(p) /\ pc[p] \in {"test", "barrier", "all_gather"}
InKeepAlive(p) == ~Exited(p) /\ pc[p] = "ready"

(* C30: in worker.py and worker_fixed.py the validator runs only after the *)
(* negotiator returned success, the keep-alive loop is entered only after  *)
(* the validator succeeded (both its collectives returned), and a process  *)
(* whose validation failed never enters the keep-alive loop.               *)
C30_Sequencing ==
    /\ [](\A p \in Negotiators :
            /\ InValidator(p) =>
                  /\ via[p] # "none"
                  /\ attempts[p] # <<>>
                  /\ sess[p] = "joined"
            /\ InKeepAlive(p) =>
                  /\ via[p] # "none"
                  /\ {"barrier", "all_gather"} \subseteq done[p]
                  /\ \A c \in Collectives : p \notin failed[c]
                  /\ misuse[p] = {})
    /\ [][\A p \in Negotiators :
             (InKeepAlive(p)' /\ ~InKeepAlive(p)) =>
                 (pc[p] = "all_gather" /\ "barrier" \in done[p])]_vars

C30_Witness ==
    \E p \in Negotiators :
        /\ InKeepAlive(p)
        /\ {"barrier", "all_gather"} \subseteq done[p]
        /\ script[p] = "worker"

(* The processes that bootstrap a group of one. *)
Solo == {p \in Procs : world = 1 /\ script[p] \in Launched \cup {"train_standalone"}}

(* C24: with world_size = 1 a process goes through the same steps as in a  *)
(* larger group: it joins only out of a pending init_process_group call,   *)
(* as rank 0 of a group of which it is the only member; its all_gather     *)
(* returns [0]; a collective it has entered waits for no peer; and a run   *)
(* that joined and ends normally has torn the session down exactly once.   *)
C24_WorldOfOne ==
    /\ [](\A p \in Solo :
            /\ sess[p] # "none" => (rank[p] = 0 /\ group[p] = {p})
            /\ "all_gather" \in done[p] => gathered[p] = << <<0>> >>
            /\ InCollective(p) => Released(p, Step(p).op)
            /\ teardowns[p] <= 1
            /\ (Exited(p) /\ exitCode[p] = 0 /\ via[p] # "none") =>
                  (teardowns[p] = 1 /\ sess[p] = "destroyed"
                   /\ {"all_gather", "barrier"} \subseteq done[p]))
    /\ [][\A p \in Solo :
             (sess'[p] = "joined" /\ sess[p] # "joined") =>
                 (sess[p] = "none" /\ blocked[p] /\ Step(p).op = "init")]_vars

C24_Witness ==
    \E p \in Solo :
        /\ script[p] = "train_standalone"
        /\ Exited(p)
        /\ exitCode[p] = 0
        /\ gathered[p] = << <<0>> >>
        /\ "barrier" \in done[p]
        /\ teardowns[p] = 1

(* The order of the validator's checks. *)
CheckOrder == <<"all_gather", "broadcast", "barrier", "all_reduce">>

(* The scripts that run collectives against a session they have joined.    *)
ValidatorVariants ==
    {"train_multinode", "train_torchrun_fixed", "train_torchrun",
     "train_standalone", "worker", "worker_fixed"}

(* C25 as claimed: every script that validates a session starts a check    *)
(* only after each check that precedes it in the order all_gather,         *)
(* broadcast, barrier, all_reduce has returned on that process.            *)
C25_Original ==
    \A p \in Procs :
        script[p] \in ValidatorVariants =>
            \A j \in 1..Len(CheckOrder) :
                p \in arrived[CheckOrder[j]] =>
                    \A i \in 1..(j - 1) : CheckOrder[i] \in done[p]

(* C26 as claimed: a prober given a malformed address does not try it       *)
(* again as if the coordinator had refused the connection, and reports the *)
(* error.                                                                  *)
C26_Original ==
    \A p \in Probers :
        Malformed(master_addr[p]) =>
            /\ probes[p] <= 1
            /\ probeResult[p] = "exhausted" => "addr" \in diagnosis[p]

(* C31: whenever worker.py or worker_fixed.py calls init_process_group     *)
(* without arguments, the direct handshake has been attempted before and   *)
(* os.environ holds MASTER_ADDR = the coordinator address supplied,        *)
(* MASTER_PORT = 12355, WORLD_SIZE = 2 and RANK = 1, the configuration of  *)
(* that handshake, whatever the environment held at the start.             *)
C31_ImplicitSameConfig ==
    [][\A p \in Negotiators :
          (attempts'[p] # attempts[p] /\ Step(p).strat = "env") =>
              /\ environ[p] = Environ(master_addr[p], "12355", "2", "1")
              /\ environ[p].WORLD_SIZE = str(world)
              /\ environ[p].RANK = str(rank[p])
              /\ attempts[p] # <<>>
              /\ attempts[p][1] = "tcp"]_vars

C31_Witness ==
    \E p \in Negotiators :
        /\ via[p] = "env"
        /\ sess[p] = "joined"
        /\ attempts[p][1] = "tcp"
        /\ environ[p] = Environ("192.168.1.100", "12355", "2", "1")

(* Process p deletes the marker file in this step. *)
Removes(p) ==
    /\ At(p, "remove")
    /\ pc'[p] # pc[p]
    /\ marker
    /\ ~marker'

(* C32 as claimed: no train_standalone.py process deletes the marker file  *)
(* that another process created while that process's session is joined.    *)
C32_Original ==
    [][\A p \in Procs :
          Removes(p) =>
              ~\E q \in Procs \ {p} :
                  marker_owner = q /\ sess[q] = "joined"]_vars

====
